---- MODULE Spec2Model ----
(***************************************************************************)
(* easyreq: the requirement-tree traversals of src/src/main.rs.            *)
(*                                                                         *)
(* A String is a sequence of one-character strings, so that trim,          *)
(* contains, starts_with, lines, split_once and replace are computed       *)
(* character by character as the Rust standard library computes them.      *)
(* An IndexMap is a sequence of entries in insertion order, each entry     *)
(* carrying its key in the field id.  A line pushed to an output Vec is a  *)
(* record holding the arguments of its format! call.                       *)
(***************************************************************************)
EXTENDS Integers, Sequences, FiniteSets, TLC

VARIABLES
    pc,                   \* "start" | "checked" | "rendered" | "joined" | "highlighted" | "rehighlighted"
                          \* and, in the terminal browser, "draw" | "recv" | "quit" | "panicked"
    project,              \* the parsed Project (lib.rs Project)
    allowed_requirements, \* Command::Check allowed_requirements: the patterns
    test_results,         \* Command::Check test_results: the files, in order
    output,               \* the Vec<String> of lines a command builds
    test_status,          \* per visited topic name: the status map left by the scan
    result,               \* "none" | "Ok" | "Err": what main returned
    stdout,               \* the lines println! wrote
    document,             \* to_markdown: output.join("\n") before the keyword pass
    markdown,             \* to_markdown: the string the keyword pass returns
    previous,             \* the string the last keyword pass was applied to
    topics_list_state,    \* tui.rs App::topics_list_state: [selected], an Option
    requirements_list_state, \* tui.rs App::requirements_list_state
    rx,                   \* tui.rs main: the events sent on the channel, not yet received
    event                 \* tui.rs main: the event the loop received last

\* the state of the terminal browser besides its project
tuiVars == <<topics_list_state, requirements_list_state, rx, event>>

\* the state of the commands of main.rs besides their project
cliVars == <<allowed_requirements, test_results, output, test_status, result, stdout,
             document, markdown, previous>>

vars == <<pc, project, allowed_requirements, test_results, output, test_status,
          result, stdout, document, markdown, previous,
          topics_list_state, requirements_list_state, rx, event>>

-----------------------------------------------------------------------------
(* Bounds of the model.                                                    *)

MaxTopics == 3      \* topics in a project tree
MaxTexts == 3       \* test-result files scanned for one topic
MaxFragments == 3   \* fragments a document is put together from
MaxQueue == 2       \* events waiting on the channel of the terminal browser

-----------------------------------------------------------------------------
(* Strings.                                                                *)

WhiteSpace == {" ", "\n", "\t"}

LowerLetters == <<"a", "b", "c", "d", "e", "f", "g", "h", "i", "j", "k", "l", "m",
                  "n", "o", "p", "q", "r", "s", "t", "u", "v", "w", "x", "y", "z">>

UpperLetters == <<"A", "B", "C", "D", "E", "F", "G", "H", "I", "J", "K", "L", "M",
                  "N", "O", "P", "Q", "R", "S", "T", "U", "V", "W", "X", "Y", "Z">>

\* char::to_uppercase on the characters of the model
UpperChar(c) ==
    IF \E i \in DOMAIN LowerLetters : LowerLetters[i] = c
    THEN UpperLetters[CHOOSE i \in DOMAIN LowerLetters : LowerLetters[i] = c]
    ELSE c

\* str::to_uppercase
to_uppercase(s) == [i \in DOMAIN s |-> UpperChar(s[i])]

\* whether p occurs in s at index i
MatchesAt(s, p, i) ==
    /\ i >= 1
    /\ i + Len(p) - 1 <= Len(s)
    /\ \A k \in 1..Len(p) : s[i + k - 1] = p[k]

\* str::starts_with
starts_with(s, p) == MatchesAt(s, p, 1)

\* str::contains
contains(s, p) == \E i \in 1..(Len(s) - Len(p) + 1) : MatchesAt(s, p, i)

\* str::find: the index of the first occurrence of p in s, 0 when there is none
find(s, p) ==
    IF contains(s, p)
    THEN CHOOSE i \in 1..(Len(s) - Len(p) + 1) :
            /\ MatchesAt(s, p, i)
            /\ \A j \in 1..(i - 1) : ~MatchesAt(s, p, j)
    ELSE 0

\* str::replacen(from, to, 1): only the first occurrence is replaced
ReplaceFirst(s, from, to) ==
    LET i == find(s, from)
    IN  IF i = 0 THEN s
        ELSE SubSeq(s, 1, i - 1) \o to \o SubSeq(s, i + Len(from), Len(s))

\* str::replace: every non-overlapping occurrence of from, left to right
RECURSIVE replace(_, _, _)
replace(s, from, to) ==
    LET i == find(s, from)
    IN  IF i = 0 THEN s
        ELSE SubSeq(s, 1, i - 1) \o to
                \o replace(SubSeq(s, i + Len(from), Len(s)), from, to)

\* str::trim_start
RECURSIVE trim_start(_)
trim_start(s) ==
    IF s # <<>> /\ Head(s) \in WhiteSpace THEN trim_start(Tail(s)) ELSE s

\* str::trim_end
RECURSIVE trim_end(_)
trim_end(s) ==
    IF s # <<>> /\ s[Len(s)] \in WhiteSpace
    THEN trim_end(SubSeq(s, 1, Len(s) - 1))
    ELSE s

\* str::trim
trim(s) == trim_end(trim_start(s))

\* str::split_once on a one-character delimiter: <<>> for None,
\* <<before, after>> for Some((before, after))
split_once(s, c) ==
    LET i == find(s, <<c>>)
    IN  IF i = 0 THEN <<>>
        ELSE <<SubSeq(s, 1, i - 1), SubSeq(s, i + 1, Len(s))>>

\* str::lines: the text cut at every "\n"; a final empty line is not a line
\* (the texts of the model hold no "\r", which lines would strip too)
RECURSIVE lines(_)
lines(s) ==
    IF s = <<>> THEN <<>>
    ELSE LET i == find(s, <<"\n">>)
         IN  IF i = 0 THEN <<s>>
             ELSE <<SubSeq(s, 1, i - 1)>> \o lines(SubSeq(s, i + 1, Len(s)))

\* [String]::join
RECURSIVE join(_, _)
join(ss, sep) ==
    IF ss = <<>> THEN <<>>
    ELSE IF Len(ss) = 1 THEN ss[1]
    ELSE ss[1] \o sep \o join(Tail(ss), sep)

-----------------------------------------------------------------------------
(* to_markdown: the keyword pass.                                          *)

HIGHLIGHTED_WORDS == <<
    <<"m", "u", "s", "t", " ", "n", "o", "t">>,
    <<"m", "u", "s", "t">>,
    <<"r", "e", "q", "u", "i", "r", "e", "d">>,
    <<"s", "h", "a", "l", "l", " ", "n", "o", "t">>,
    <<"s", "h", "a", "l", "l">>,
    <<"s", "h", "o", "u", "l", "d", " ", "n", "o", "t">>,
    <<"s", "h", "o", "u", "l", "d">>,
    <<"r", "e", "c", "o", "m", "m", "e", "n", "d", "e", "d">>,
    <<"m", "a", "y">>,
    <<"o", "p", "t", "i", "o", "n", "a", "l">> >>

\* a slip: the keyword is wrapped but not upper-cased
EmphasisLower(word) == <<"*", "*", "_">> \o word \o <<"_", "*", "*">>

\* format!("**_{}_**", word.to_uppercase())
Emphasis(word) == <<"*", "*", "_">> \o to_uppercase(word) \o <<"_", "*", "*">>

\* a slip: replacen(word, .., 1) instead of replace
HighlightWordOnce(text, word) == ReplaceFirst(text, word, Emphasis(word))

\* output.replace(word, &format!(..)) for one word of the list
HighlightWord(text, word) == replace(text, word, Emphasis(word))

\* for word in HIGHLIGHTED_WORDS { output = output.replace(..) }, from word k on
RECURSIVE HighlightFrom(_, _)
HighlightFrom(text, k) ==
    IF k > Len(HIGHLIGHTED_WORDS) THEN text
    ELSE HighlightFrom(HighlightWord(text, HIGHLIGHTED_WORDS[k]), k + 1)

Highlight(text) == HighlightFrom(text, 1)

-----------------------------------------------------------------------------
(* Compliance checker: check_requirements.                                 *)

\* Regex::is_match for a pattern of the shape of the default "REQ-.*": a
\* literal followed by ".*", searched anywhere in the (untrimmed) identifier
is_match(r, id) == contains(id, r.literal)

\* allowed_requirements.iter().any(|r| r.is_match(id))
Allowed(allowed, id) == \E k \in DOMAIN allowed : is_match(allowed[k], id)

\* format!("{}: failed", id.trim())
FailedMarker(id) == trim(id) \o <<":", " ", "f", "a", "i", "l", "e", "d">>

\* format!("{}: passed", id.trim())
PassedMarker(id) == trim(id) \o <<":", " ", "p", "a", "s", "s", "e", "d">>

\* the closure of filter_map: <<>> for None, <<err>> for Some(err)
LineError(l, search_string) ==
    IF starts_with(l, search_string)
    THEN LET a == split_once(l, ":")
         IN  IF a = <<>> THEN <<>>
             ELSE LET b == split_once(a[2], "-")
                  IN  IF b = <<>> THEN <<>> ELSE <<b[2]>>
    ELSE <<>>

\* test_results.lines().filter_map(..).collect()
RECURSIVE FilterMapErrors(_, _)
FilterMapErrors(ls, search_string) ==
    IF ls = <<>> THEN <<>>
    ELSE LineError(Head(ls), search_string)
            \o FilterMapErrors(Tail(ls), search_string)

\* a status map: IndexMap<String, (bool, Vec<String>)>, a function on its keys
EmptyMap == [k \in {} |-> [status |-> TRUE, errors |-> <<>>]]

\* IndexMap::insert: an existing entry is overwritten
insert(map, key, value) ==
    [k \in (DOMAIN map) \cup {key} |-> IF k = key THEN value ELSE map[k]]

\* IndexMap::entry(key).or_insert(value): an existing entry is kept
or_insert(map, key, value) ==
    IF key \in DOMAIN map THEN map ELSE insert(map, key, value)

\* a slip: the failed status is recorded with or_insert
RecordFailedIfAbsent(map, id, errors) ==
    or_insert(map, trim(id), [status |-> FALSE, errors |-> errors])

\* output.insert(id.trim().to_string(), (false, errors.collect()))
RecordFailed(map, id, errors) ==
    insert(map, trim(id), [status |-> FALSE, errors |-> errors])

\* output.entry(id.trim().to_string()).or_insert((true, Vec::new()))
RecordPassed(map, id) ==
    or_insert(map, trim(id), [status |-> TRUE, errors |-> <<>>])

\* the body of the loop of check_requirements for one identifier
CheckRequirement(text, map, id, allowed) ==
    IF Allowed(allowed, id)
    THEN IF contains(text, FailedMarker(id))
         THEN RecordFailed(map, id, FilterMapErrors(lines(text), FailedMarker(id)))
         ELSE IF contains(text, PassedMarker(id))
              THEN RecordPassed(map, id)
              ELSE map
    ELSE map

\* check_requirements, from requirement k on
RECURSIVE CheckRequirementsFrom(_, _, _, _, _)
CheckRequirementsFrom(text, map, requirements, allowed, k) ==
    IF k > Len(requirements) THEN map
    ELSE CheckRequirementsFrom(
            text,
            CheckRequirement(text, map, requirements[k].id, allowed),
            requirements, allowed, k + 1)

check_requirements(text, map, requirements, allowed) ==
    CheckRequirementsFrom(text, map, requirements, allowed, 1)

-----------------------------------------------------------------------------
(* Compliance checker: pruning.                                            *)

has_valid_requirements(requirements, allowed) ==
    \E k \in DOMAIN requirements : Allowed(allowed, requirements[k].id)

RECURSIVE has_valid_topics(_, _)
has_valid_topics(topics, allowed) ==
    \E k \in DOMAIN topics :
        \/ has_valid_requirements(topics[k].requirements, allowed)
        \/ has_valid_topics(topics[k].subtopics, allowed)

\* a slip: a topic is skipped only when it has no requirement at all
SkippedIfEmpty(topic, allowed) ==
    /\ ~has_valid_topics(topic.subtopics, allowed)
    /\ topic.requirements = <<>>

\* the condition of the continue in check_topics
Skipped(topic, allowed) ==
    /\ ~has_valid_topics(topic.subtopics, allowed)
    /\ ~has_valid_requirements(topic.requirements, allowed)

-----------------------------------------------------------------------------
(* Lines.                                                                  *)

\* nl(): the empty line
nl == [kind |-> "nl"]

\* "#".repeat(level)
Repeat(c, n) == [i \in 1..n |-> c]

\* format!("{} _{}_ - {}", "#".repeat(level), id, name)
Heading(level, id, name) ==
    [kind |-> "heading", markers |-> Repeat("#", level), id |-> id, name |-> name]

\* a slip: the recursion passes level on unchanged
SameLevel(level) == level

\* level + 1, the level of the recursive call on the subtopics
SubLevel(level) == level + 1

-----------------------------------------------------------------------------
(* Compliance checker: check_topics.                                       *)

\* a slip: an unreadable file is read as the empty text
ReadOrEmpty(file) == IF file.readable THEN <<file.text>> ELSE << <<>> >>

\* std::fs::read_to_string: <<text>> for Ok(text), <<>> for Err
read_to_string(file) == IF file.readable THEN <<file.text>> ELSE <<>>

\* the loop over test_results for one topic: every file is read, and scanned
\* when the topic has requirements; a failed read ends it (the ? operator)
RECURSIVE ScanFrom(_, _, _, _, _)
ScanFrom(files, map, topic, allowed, k) ==
    IF k > Len(files) THEN [ok |-> TRUE, map |-> map]
    ELSE LET read == read_to_string(files[k])
         IN  IF read = <<>> THEN [ok |-> FALSE, map |-> map]
             ELSE ScanFrom(
                    files,
                    IF topic.requirements # <<>>
                    THEN check_requirements(read[1], map, topic.requirements, allowed)
                    ELSE map,
                    topic, allowed, k + 1)

\* a slip: a requirement without a recorded status is reported as passed
StatusOrPassed(map, id) ==
    IF id \in DOMAIN map
    THEN IF map[id].status
         THEN [marker |-> ":white_check_mark:", errors |-> map[id].errors]
         ELSE [marker |-> ":x:", errors |-> map[id].errors]
    ELSE [marker |-> ":white_check_mark:", errors |-> <<>>]

\* the let (status, errors) of check_topics: test_status.get(id), with the
\* key of the requirement as it stands in the map of the topic
StatusOf(map, id) ==
    IF id \in DOMAIN map
    THEN IF map[id].status
         THEN [marker |-> ":white_check_mark:", errors |-> map[id].errors]
         ELSE [marker |-> ":x:", errors |-> map[id].errors]
    ELSE [marker |-> ":warning:", errors |-> <<>>]

\* the lines pushed for one requirement: its bullet, then its errors
ResultLines(map, req) ==
    LET got == StatusOf(map, req.id)
    IN  << [kind |-> "result", id |-> trim(req.id), name |-> req.name,
            status |-> got.marker] >>
        \o [i \in 1..Len(got.errors) |->
                [kind |-> "error", text |-> trim(got.errors[i])]]

RECURSIVE ResultLinesFrom(_, _, _)
ResultLinesFrom(map, requirements, k) ==
    IF k > Len(requirements) THEN <<>>
    ELSE ResultLines(map, requirements[k])
            \o ResultLinesFrom(map, requirements, k + 1)

\* check_topics carries acc = [ok, output, test_status]: ok is FALSE once a
\* read has failed, output is the Vec, test_status keeps for every topic whose
\* scan ended the map the scan left (by the name of the topic)
RECURSIVE check_topics(_, _, _, _, _)
RECURSIVE CheckTopicsFrom(_, _, _, _, _, _)

\* the body of the loop of check_topics for one topic
CheckTopic(files, acc, topic, allowed, level) ==
    IF Skipped(topic, allowed) THEN acc
    ELSE
      LET headed == Append(acc.output, Heading(level, trim(topic.id), topic.name))
          scan == ScanFrom(files, EmptyMap, topic, allowed, 1)
      IN  IF ~scan.ok
          THEN [ok |-> FALSE, output |-> headed, test_status |-> acc.test_status]
          ELSE
            LET listed ==
                    IF topic.requirements # <<>>
                    THEN headed \o ResultLinesFrom(scan.map, topic.requirements, 1)
                                \o <<nl>>
                    ELSE headed
                here == [ok |-> TRUE, output |-> listed,
                         test_status |-> insert(acc.test_status, topic.name, scan.map)]
            IN  IF topic.subtopics # <<>>
                THEN LET sub == check_topics(files, here, topic.subtopics, allowed,
                                             SubLevel(level))
                     IN  IF sub.ok THEN [sub EXCEPT !.output = Append(@, nl)] ELSE sub
                ELSE here

CheckTopicsFrom(files, acc, topics, allowed, level, k) ==
    IF k > Len(topics) \/ ~acc.ok THEN acc
    ELSE CheckTopicsFrom(files, CheckTopic(files, acc, topics[k], allowed, level),
                         topics, allowed, level, k + 1)

check_topics(files, acc, topics, allowed, level) ==
    IF ~has_valid_topics(topics, allowed) THEN acc
    ELSE CheckTopicsFrom(files, acc, topics, allowed, level, 1)

-----------------------------------------------------------------------------
(* Document renderer: add_requirements, add_topics, to_markdown.           *)

\* the lines pushed for one requirement: its bullet, then its notes
RequirementLines(req) ==
    << [kind |-> "requirement", id |-> trim(req.id), name |-> trim(req.name),
        description |-> trim(req.description)] >>
    \o [i \in 1..Len(req.additional_info) |->
            [kind |-> "info", text |-> trim(req.additional_info[i])]]

RECURSIVE AddRequirementsFrom(_, _)
AddRequirementsFrom(requirements, k) ==
    IF k > Len(requirements) THEN <<>>
    ELSE RequirementLines(requirements[k]) \o AddRequirementsFrom(requirements, k + 1)

add_requirements(requirements) == AddRequirementsFrom(requirements, 1)

\* a slip: no empty line after the requirement list
ListedWithoutSeparator(topic) ==
    IF topic.requirements # <<>> THEN add_requirements(topic.requirements) ELSE <<>>

\* if !topic.requirements.is_empty() { add_requirements(..); output.push(nl()) }
Listed(topic) ==
    IF topic.requirements # <<>>
    THEN add_requirements(topic.requirements) \o <<nl>>
    ELSE <<>>

RECURSIVE add_topics(_, _, _)

\* the body of the loop of add_topics for one topic
AddTopic(out, topic, level) ==
    LET listed == Append(out, Heading(level, trim(topic.id), trim(topic.name)))
                    \o Listed(topic)
    IN  IF topic.subtopics # <<>>
        THEN add_topics(listed, topic.subtopics, SubLevel(level))
        ELSE listed

RECURSIVE AddTopicsFrom(_, _, _, _)
AddTopicsFrom(out, topics, level, k) ==
    IF k > Len(topics) THEN out
    ELSE AddTopicsFrom(AddTopic(out, topics[k], level), topics, level, k + 1)

add_topics(out, topics, level) == AddTopicsFrom(out, topics, level, 1)

\* the lines of one definition
DefinitionLines(definition) ==
    << [kind |-> "definition", name |-> trim(definition.name),
        value |-> trim(definition.value)] >>
    \o [i \in 1..Len(definition.additional_info) |->
            [kind |-> "info", text |-> trim(definition.additional_info[i])]]

RECURSIVE DefinitionsFrom(_, _)
DefinitionsFrom(definitions, k) ==
    IF k > Len(definitions) THEN <<>>
    ELSE DefinitionLines(definitions[k]) \o DefinitionsFrom(definitions, k + 1)

\* default.hint.map(|h| format!(" {}", h.trim())).unwrap_or_default()
HintText(default) ==
    IF default.hint = <<>> THEN <<>> ELSE <<" ">> \o trim(default.hint[1])

\* the lines of one config default; an Option is <<>> or <<value>>
ConfigDefaultLines(default) ==
    << [kind |-> "default", name |-> trim(default.name)],
       [kind |-> "type", text |-> trim(default.typ)] >>
    \o (IF default.unit # <<>>
        THEN << [kind |-> "unit", text |-> trim(default.unit[1])] >> ELSE <<>>)
    \o (IF default.valid_values # <<>>
        THEN << [kind |-> "valid_values",
                 text |-> trim(join(default.valid_values[1], <<",", " ">>))] >>
        ELSE <<>>)
    \o (IF default.default_value # <<>>
        THEN << [kind |-> "default_value", text |-> trim(default.default_value[1]),
                 hint |-> HintText(default)] >>
        ELSE << [kind |-> "required", hint |-> HintText(default)] >>)
    \o <<nl>>

RECURSIVE ConfigDefaultsFrom(_, _)
ConfigDefaultsFrom(defaults, k) ==
    IF k > Len(defaults) THEN <<>>
    ELSE ConfigDefaultLines(defaults[k]) \o ConfigDefaultsFrom(defaults, k + 1)

\* the level of the headings of the top-level topics
RenderRootLevel == 3
CheckRootLevel == 2

\* to_markdown up to the join: the Vec of lines
to_markdown(p, add_toc) ==
    LET head == << [kind |-> "title", name |-> trim(p.name)], nl >>
                \o (IF add_toc THEN << [kind |-> "toc"], nl >> ELSE <<>>)
                \o << [kind |-> "word_description"], nl,
                      [kind |-> "version", version |-> p.version], nl,
                      [kind |-> "section", text |-> "Description"],
                      [kind |-> "text", text |-> trim(p.description)], nl >>
        topics == IF p.topics # <<>>
                  THEN add_topics(
                         Append(head, [kind |-> "section", text |-> "Requirements"]),
                         p.topics, RenderRootLevel)
                  ELSE head
        definitions ==
            IF p.definitions # <<>>
            THEN Append(topics, [kind |-> "section", text |-> "Definitions"])
                    \o DefinitionsFrom(p.definitions, 1) \o <<nl>>
            ELSE topics
    IN  IF p.config_defaults # <<>>
        THEN Append(definitions, [kind |-> "section", text |-> "Config Defaults"])
                \o ConfigDefaultsFrom(p.config_defaults, 1)
        ELSE definitions

-----------------------------------------------------------------------------
(* Inputs: the projects, patterns, files and documents the commands are    *)
(* run on.                                                                 *)

Digit == <<"1", "2", "3", "4", "5", "6", "7", "8", "9">>

REQ1 == <<"R", "E", "Q", "-", "1">>
REQ1Lead == <<" ", "R", "E", "Q", "-", "1">>       \* a key with leading whitespace
REQ2Trail == <<"R", "E", "Q", "-", "2", " ">>      \* a key with trailing whitespace
REQ3Colon == <<"R", "E", "Q", "-", "3", ":", "-">> \* a key with ':' and then '-'
X1 == <<"X", "-", "1">>

PatternREQ == [literal |-> <<"R", "E", "Q", "-">>]  \* the default, "REQ-.*"
PatternX == [literal |-> <<"X", "-">>]              \* "X-.*"
PatternQ == [literal |-> <<"Q">>]                   \* "Q.*": matches no key here

\* the requirements of topic i with the keys ids, in this order
Requirements(ids, i) ==
    [k \in DOMAIN ids |->
        [id |-> ids[k],
         name |-> <<"n", Digit[i], Digit[k]>>,
         description |-> <<" ", "d", Digit[k], " ">>,
         additional_info |-> IF k = 1 THEN << <<" ", "i", " ">> >> ELSE <<>>]]

\* the elements of a set of numbers, in increasing order
RECURSIVE Sorted(_)
Sorted(S) ==
    IF S = {} THEN <<>>
    ELSE LET m == CHOOSE x \in S : \A y \in S : x <= y
         IN  <<m>> \o Sorted(S \ {m})

\* the topics with the numbers nodes, topic i under topic parent[i] (0: the
\* project), siblings in the order of their numbers
RECURSIVE Topics(_, _, _)
Topics(parent, ids, nodes) ==
    [k \in DOMAIN nodes |->
        LET i == nodes[k]
        IN  [id |-> <<"T", Digit[i], " ">>,
             name |-> <<"N", Digit[i]>>,
             requirements |-> Requirements(ids[i], i),
             subtopics |-> Topics(parent, ids,
                                  Sorted({j \in DOMAIN parent : parent[j] = i}))]]

Parents(n) == {f \in [1..n -> 0..(n - 1)] : \A i \in 1..n : f[i] < i}

Forest(parent, ids) ==
    Topics(parent, ids, Sorted({j \in DOMAIN parent : parent[j] = 0}))

Project(topics, definitions, config_defaults) ==
    [name |-> <<" ", "P", " ">>,
     version |-> [major |-> 1, minor |-> 2, patch |-> 3],
     description |-> <<" ", "D", " ">>,
     topics |-> topics,
     definitions |-> definitions,
     config_defaults |-> config_defaults]

File(text) == [readable |-> TRUE, text |-> text]
Unreadable == [readable |-> FALSE, text |-> <<>>]

Failed == <<":", " ", "f", "a", "i", "l", "e", "d">>
Passed == <<":", " ", "p", "a", "s", "s", "e", "d">>
NewLine == <<"\n">>

\* the keys a topic of a tree has
TreeKeys == {<<>>, <<REQ1>>, <<X1>>}
TreePatterns == {<<PatternREQ>>, <<PatternX>>, <<PatternQ>>, <<PatternQ, PatternREQ>>}
TreeFile == File(REQ1 \o Failed \o <<" ", "-", " ", "a">> \o NewLine \o X1 \o Passed)
TreeResults == {<<TreeFile>>, <<Unreadable>>, <<TreeFile, Unreadable>>}

\* the keys of the one topic the scan is tried on
ScanKeys == {<<REQ1>>, <<REQ1Lead>>, <<REQ1, REQ2Trail>>, <<REQ3Colon>>,
             <<REQ1, X1>>, <<REQ1Lead, REQ1>>}
ScanPatterns == {<<PatternREQ>>, <<PatternX, PatternREQ>>}
ScanTexts == {
    REQ1 \o Passed,
    REQ1 \o Failed \o <<" ", "-", " ", "a">>,
    REQ1 \o Passed \o NewLine
        \o REQ1 \o Failed \o <<" ", "-", " ", "b">> \o NewLine
        \o REQ1 \o Failed \o <<" ", "-", " ", " ", "c", " ">>,
    trim(REQ2Trail) \o Passed \o NewLine
        \o REQ3Colon \o Failed \o <<" ", "-", " ", "a">>,
    trim(REQ2Trail) \o Failed \o NewLine
        \o <<"x", " ">> \o REQ1 \o Failed \o <<" ", "-", " ", "d">>,
    X1 \o Failed \o <<" ", "-", " ", "e">> }

Definition1 == [name |-> <<" ", "k", " ">>, value |-> <<"v">>,
                additional_info |-> << <<"i">> >>]
ConfigWithDefault ==
    [name |-> <<"c">>, typ |-> <<"t">>, valid_values |-> << << <<"a">>, <<"b">> >> >>,
     unit |-> << <<"u">> >>, default_value |-> << <<"a">> >>, hint |-> << <<" ", "h">> >>]
ConfigRequired ==
    [name |-> <<"c">>, typ |-> <<"t">>, valid_values |-> <<>>,
     unit |-> <<>>, default_value |-> <<>>, hint |-> <<>>]

\* what a document is put together from
Fragments == {
    <<"m", "u", "s", "t">>, <<" ", "n", "o", "t">>, <<"M", "u", "s", "t">>,
    <<"S", "H", "A", "L", "L">>, <<"s", "h", "a", "l", "l">>, <<"m", "a", "y">>,
    <<"x">>, <<" ">>, <<"*", "*", "_", "M", "U", "S", "T", "_", "*", "*">> }

RECURSIVE Concat(_)
Concat(ss) == IF ss = <<>> THEN <<>> ELSE Head(ss) \o Concat(Tail(ss))

Documents == {Concat(fs) : fs \in UNION {[1..n -> Fragments] : n \in 0..MaxFragments}}

-----------------------------------------------------------------------------
(* The state machine: one command is run on the inputs Init chose.         *)

Idle(p, allowed, files, doc, at) ==
    /\ pc = at
    /\ project = p
    /\ allowed_requirements = allowed
    /\ test_results = files
    /\ document = doc
    /\ output = <<>>
    /\ test_status = EmptyMap
    /\ result = "none"
    /\ stdout = <<>>
    /\ markdown = <<>>
    /\ previous = <<>>
    /\ topics_list_state = [selected |-> <<>>]
    /\ requirements_list_state = [selected |-> <<>>]
    /\ rx = <<>>
    /\ event = "none"

\* projects of every shape, against a few patterns and files
InitTree ==
    \E n \in 0..MaxTopics :
      \E parent \in Parents(n), ids \in [1..n -> TreeKeys],
         allowed \in TreePatterns, files \in TreeResults :
        Idle(Project(Forest(parent, ids), <<>>, <<>>), allowed, files, <<>>, "start")

\* one topic, against every list of readable files
InitScan ==
    \E keys \in ScanKeys, allowed \in ScanPatterns, n \in 1..MaxTexts :
      \E texts \in [1..n -> ScanTexts] :
        Idle(Project(Forest(<<0>>, <<keys>>), <<>>, <<>>), allowed,
             [k \in 1..n |-> File(texts[k])], <<>>, "start")

\* projects with definitions and config defaults
InitSections ==
    \E parent \in Parents(2), keys \in TreeKeys,
       definitions \in {<<>>, <<Definition1>>},
       defaults \in {<<>>, <<ConfigWithDefault>>, <<ConfigRequired, ConfigWithDefault>>} :
        Idle(Project(Forest(parent, <<keys, <<REQ1>> >>), definitions, defaults),
             <<PatternREQ>>, <<TreeFile>>, <<>>, "start")

\* a joined document, before the keyword pass
InitWords ==
    \E doc \in Documents :
        Idle(Project(<<>>, <<>>, <<>>), <<PatternREQ>>, <<Unreadable>>, doc, "joined")

Init == InitTree \/ InitScan \/ InitSections \/ InitWords

\* Command::Check: the report is printed only when check_topics returned Ok
Check ==
    /\ pc = "start"
    /\ LET r == check_topics(
                  test_results,
                  [ok |-> TRUE,
                   output |-> << [kind |-> "title", name |-> project.name] >>,
                   test_status |-> EmptyMap],
                  project.topics, allowed_requirements, CheckRootLevel)
       IN  /\ output' = r.output
           /\ test_status' = r.test_status
           /\ result' = IF r.ok THEN "Ok" ELSE "Err"
           /\ stdout' = IF r.ok THEN r.output ELSE <<>>
    /\ pc' = "checked"
    /\ UNCHANGED <<project, allowed_requirements, test_results, document, markdown,
                   previous>>
    /\ UNCHANGED tuiVars

\* Command::Markdown: to_markdown(requirements, true)
Markdown ==
    /\ pc = "start"
    /\ output' = to_markdown(project, TRUE)
    /\ stdout' = output'
    /\ result' = "Ok"
    /\ pc' = "rendered"
    /\ UNCHANGED <<project, allowed_requirements, test_results, test_status, document,
                   markdown, previous>>
    /\ UNCHANGED tuiVars

\* Command::Html: to_markdown(requirements, false), handed to the HTML converter
Html ==
    /\ pc = "start"
    /\ output' = to_markdown(project, FALSE)
    /\ stdout' = << [kind |-> "html", content |-> output'] >>
    /\ result' = "Ok"
    /\ pc' = "rendered"
    /\ UNCHANGED <<project, allowed_requirements, test_results, test_status, document,
                   markdown, previous>>
    /\ UNCHANGED tuiVars

\* to_markdown after the join: the keyword pass over the document
HighlightWords ==
    /\ pc = "joined"
    /\ previous' = document
    /\ markdown' = Highlight(document)
    /\ pc' = "highlighted"
    /\ UNCHANGED <<project, allowed_requirements, test_results, output, test_status,
                   result, stdout, document>>
    /\ UNCHANGED tuiVars

\* the keyword pass over a string it has returned
HighlightAgain ==
    /\ pc = "highlighted"
    /\ previous' = markdown
    /\ markdown' = Highlight(markdown)
    /\ pc' = "rehighlighted"
    /\ UNCHANGED <<project, allowed_requirements, test_results, output, test_status,
                   result, stdout, document>>
    /\ UNCHANGED tuiVars

Next == Check \/ Markdown \/ Html \/ HighlightWords \/ HighlightAgain

Spec == Init /\ [][Next]_vars

-----------------------------------------------------------------------------
(* The terminal browser, src/src/bin/tui.rs.  An Option is <<>> for None   *)
(* and <<v>> for Some(v).                                                  *)

\* what the input thread sends: Input(key) for the keys Down, Up, 'q' and
\* any other key, and Tick
Events == {"Down", "Up", "q", "Key", "Tick"}

\* ListState::select
select(state, index) == [state EXCEPT !.selected = index]

\* a slip: the last index is taken to be n
NextIndexPastEnd(i, n) == IF i >= n THEN 0 ELSE i + 1

\* the index next_topic selects: if i >= n - 1 { 0 } else { i + 1 }
NextIndex(i, n) == IF i >= n - 1 THEN 0 ELSE i + 1

\* the index previous_topic selects: if i == 0 { n - 1 } else { i - 1 }
PreviousIndex(i, n) == IF i = 0 THEN n - 1 ELSE i - 1

\* App::next_topic on the list state of the topics, n = project.topics.len()
next_topic(state, n) ==
    IF state.selected # <<>>
    THEN select(state, <<NextIndex(state.selected[1], n)>>)
    ELSE state

\* App::previous_topic
previous_topic(state, n) ==
    IF state.selected # <<>>
    THEN select(state, <<PreviousIndex(state.selected[1], n)>>)
    ELSE state

\* the projects the browser is opened on: up to MaxTopics top-level topics,
\* the first with or without requirements
TuiProjects ==
    {Project(Forest([i \in 1..n |-> 0], [i \in 1..n |-> IF i = 1 THEN keys ELSE <<REQ1>>]),
             <<>>, <<>>)
        : n \in 0..MaxTopics, keys \in {<<>>, <<REQ1>>}}

\* App::new(project), before the first draw
InitTui ==
    /\ pc = "draw"
    /\ project \in TuiProjects
    /\ topics_list_state = [selected |-> <<0>>]
    /\ requirements_list_state = [selected |-> <<0>>]
    /\ rx = <<>>
    /\ event = "none"
    /\ allowed_requirements = <<>>
    /\ test_results = <<>>
    /\ output = <<>>
    /\ test_status = EmptyMap
    /\ result = "none"
    /\ stdout = <<>>
    /\ document = <<>>
    /\ markdown = <<>>
    /\ previous = <<>>

\* terminal.draw(|f| app.draw(f)): project.topics.first().unwrap() panics on
\* a project without topics; the widgets are drawn from the project and the
\* list states.  The list widget is not of this repository: with a selection
\* inside its items it keeps the selection, and for the list of requirements,
\* which may be empty under a selection of 0, it keeps it or clears it
Draw ==
    /\ pc = "draw"
    /\ IF project.topics = <<>>
       THEN /\ pc' = "panicked"
            /\ UNCHANGED requirements_list_state
       ELSE /\ pc' = "recv"
            /\ \E selected \in
                    (IF project.topics[1].requirements = <<>>
                     THEN {requirements_list_state.selected, <<>>}
                     ELSE {requirements_list_state.selected}) :
                 requirements_list_state' = select(requirements_list_state, selected)
    /\ UNCHANGED <<project, topics_list_state, rx, event>>
    /\ UNCHANGED cliVars

\* the input thread: tx.send(Event::Input(key)) or tx.send(Event::Tick)
Send ==
    /\ pc \in {"draw", "recv"}
    /\ Len(rx) < MaxQueue
    /\ \E e \in Events : rx' = Append(rx, e)
    /\ UNCHANGED <<pc, project, topics_list_state, requirements_list_state, event>>
    /\ UNCHANGED cliVars

\* match rx.recv()? { .. }: 'q' leaves the loop, Down and Up move the
\* selection of the topics, any other key and Tick do nothing
Recv ==
    /\ pc = "recv"
    /\ rx # <<>>
    /\ event' = Head(rx)
    /\ rx' = Tail(rx)
    /\ pc' = IF Head(rx) = "q" THEN "quit" ELSE "draw"
    /\ topics_list_state' =
          CASE Head(rx) = "Down" -> next_topic(topics_list_state, Len(project.topics))
            [] Head(rx) = "Up" -> previous_topic(topics_list_state, Len(project.topics))
            [] OTHER -> topics_list_state
    /\ UNCHANGED <<project, requirements_list_state>>
    /\ UNCHANGED cliVars

NextTui == Draw \/ Send \/ Recv

SpecTui == InitTui /\ [][NextTui]_vars

-----------------------------------------------------------------------------
(* What the properties speak of, read off the project and the inputs, not  *)
(* off the traversals.                                                     *)

\* every topic of a forest with its nesting depth, top-level topics at depth d
RECURSIVE Nodes(_, _)
Nodes(topics, d) ==
    UNION {{[topic |-> topics[k], depth |-> d]} \cup Nodes(topics[k].subtopics, d + 1)
            : k \in DOMAIN topics}

AllTopics == Nodes(project.topics, 0)

\* the requirements of a topic that some allowed pattern matches
InScope(topic) ==
    {k \in DOMAIN topic.requirements :
        \E r \in DOMAIN allowed_requirements :
            contains(topic.requirements[k].id, allowed_requirements[r].literal)}

\* some requirement of the topic or of a topic below it is in scope
Survives(topic) == \E n \in Nodes(<<topic>>, 0) : InScope(n.topic) # {}

\* the files that contain the failed, the passed marker of the identifier
Failing(id) ==
    {k \in DOMAIN test_results :
        contains(test_results[k].text,
                 trim(id) \o <<":", " ", "f", "a", "i", "l", "e", "d">>)}

Passing(id) ==
    {k \in DOMAIN test_results :
        contains(test_results[k].text,
                 trim(id) \o <<":", " ", "p", "a", "s", "s", "e", "d">>)}

Last(S) == CHOOSE k \in S : \A j \in S : j <= k

AllReadable == \A k \in DOMAIN test_results : test_results[k].readable

Checked == pc = "checked" /\ result = "Ok"

\* the lines of the report for the requirement with this name
ResultsFor(name) ==
    {i \in DOMAIN output : output[i].kind = "result" /\ output[i].name = name}

HeadingsFor(name) ==
    {i \in DOMAIN output : output[i].kind = "heading" /\ output[i].name = name}

-----------------------------------------------------------------------------
(* C1: failure dominance.  After the scan of a topic, an in-scope          *)
(* requirement that some text marks failed has the status failed with the  *)
(* error messages of the last such text alone, whatever the order of the   *)
(* texts and whatever texts mark it passed; with no failed marker and some *)
(* passed marker it has the status passed and no messages.                 *)
C1_FailureDominance ==
    Checked =>
      \A n \in AllTopics :
        \A k \in InScope(n.topic) :
          LET id == n.topic.requirements[k].id
              map == test_status[n.topic.name]
              marker == trim(id) \o <<":", " ", "f", "a", "i", "l", "e", "d">>
          IN  /\ Failing(id) # {} =>
                    /\ trim(id) \in DOMAIN map
                    /\ map[trim(id)].status = FALSE
                    /\ map[trim(id)].errors =
                         FilterMapErrors(
                            lines(test_results[Last(Failing(id))].text), marker)
              /\ (Failing(id) = {} /\ Passing(id) # {}) =>
                    /\ trim(id) \in DOMAIN map
                    /\ map[trim(id)] = [status |-> TRUE, errors |-> <<>>]

\* the reverse order: the failing text B first, then a text A that only marks
\* the requirement passed; the status is failed with the messages of B
C1_Witness ==
    /\ Checked
    /\ Len(test_results) = 2
    /\ \E n \in AllTopics :
         \E k \in InScope(n.topic) :
           LET id == n.topic.requirements[k].id
           IN  /\ Failing(id) = {1}
               /\ Passing(id) = {2}
               /\ test_status[n.topic.name][trim(id)].status = FALSE
               /\ test_status[n.topic.name][trim(id)].errors # <<>>

-----------------------------------------------------------------------------
(* C2: pruning.  A topic none of whose requirements, its own or those of   *)
(* the topics below it, is in scope gets no heading and no requirement     *)
(* bullet, nor does any topic below it; and every error line of the report *)
(* stands under the bullet of a failed requirement.                        *)
C2_Pruning ==
    pc = "checked" =>
      /\ \A n \in AllTopics :
           ~Survives(n.topic) =>
             \A s \in Nodes(<<n.topic>>, 0) :
               /\ HeadingsFor(s.topic.name) = {}
               /\ \A k \in DOMAIN s.topic.requirements :
                     ResultsFor(s.topic.requirements[k].name) = {}
      /\ \A i \in DOMAIN output :
           output[i].kind = "error" =>
             /\ i > 1
             /\ \/ output[i - 1].kind = "error"
                \/ output[i - 1].kind = "result" /\ output[i - 1].status = ":x:"

\* a topic with requirements, none in scope, under a topic that is reported
C2_Witness ==
    /\ Checked
    /\ \E n \in AllTopics :
         /\ n.depth >= 1
         /\ n.topic.requirements # <<>>
         /\ ~Survives(n.topic)
    /\ \E i \in DOMAIN output : output[i].kind = "heading"

-----------------------------------------------------------------------------
(* C3: an in-scope requirement that no text marks failed or passed has one *)
(* bullet, with the warning marker, and no error line under it.            *)
C3_Unknown ==
    Checked =>
      \A n \in AllTopics :
        \A k \in InScope(n.topic) :
          LET req == n.topic.requirements[k]
          IN  (Failing(req.id) = {} /\ Passing(req.id) = {}) =>
                /\ Cardinality(ResultsFor(req.name)) = 1
                /\ \A i \in ResultsFor(req.name) :
                     /\ output[i].status = ":warning:"
                     /\ output[i].id = trim(req.id)
                     /\ output[i + 1].kind # "error"
                /\ stdout = output

\* an in-scope requirement no text mentions, beside texts that mention others
C3_Witness ==
    /\ Checked
    /\ \E n \in AllTopics :
         \E k \in InScope(n.topic) :
           LET req == n.topic.requirements[k]
           IN  /\ Failing(req.id) = {} /\ Passing(req.id) = {}
               /\ \E i \in ResultsFor(req.name) : output[i].status = ":warning:"
               /\ \E i \in DOMAIN output : output[i].kind = "error"

-----------------------------------------------------------------------------
(* C4: an unreadable test-result file.                                     *)

\* C4 as stated: whenever some file cannot be read, check fails and prints
\* nothing, also when no topic survives pruning
C4_AnyUnreadableFails ==
    (pc = "checked" /\ ~AllReadable) => (result = "Err" /\ stdout = <<>>)

\* C4 as amended: with an unreadable file, check fails and prints nothing
\* when some topic survives pruning; when none does (or there is no topic)
\* no file is read, and check succeeds and prints the title line alone
C4_UnreadableFailsWhenRead ==
    (pc = "checked" /\ ~AllReadable) =>
      IF \E n \in AllTopics : InScope(n.topic) # {}
      THEN result = "Err" /\ stdout = <<>>
      ELSE result = "Ok" /\ stdout = << [kind |-> "title", name |-> project.name] >>

\* the second file is unreadable and only a nested topic has a requirement
\* in scope
C4_Witness ==
    /\ pc = "checked"
    /\ Len(test_results) = 2
    /\ test_results[1].readable /\ ~test_results[2].readable
    /\ \E n \in AllTopics : n.depth >= 1 /\ InScope(n.topic) # {}
    /\ \A n \in AllTopics : n.depth = 0 => InScope(n.topic) = {}
    /\ result = "Err"
    /\ stdout = <<>>

-----------------------------------------------------------------------------
(* C5: the bullet of an in-scope requirement carries the failed marker     *)
(* when some text contains its failed marker, and the passed marker when   *)
(* only its passed marker occurs, also when its key carries whitespace.    *)
C5_RecordedStatusIsRendered ==
    Checked =>
      \A n \in AllTopics :
        \A k \in InScope(n.topic) :
          LET req == n.topic.requirements[k]
          IN  /\ Cardinality(ResultsFor(req.name)) = 1
              /\ \A i \in ResultsFor(req.name) :
                   /\ Failing(req.id) # {} => output[i].status = ":x:"
                   /\ (Failing(req.id) = {} /\ Passing(req.id) # {}) =>
                         output[i].status = ":white_check_mark:"

-----------------------------------------------------------------------------
(* C6: the error messages of a failing text.  For the last text with the   *)
(* failed marker of an in-scope requirement, when each of its lines that   *)
(* begins with the marker has a '-' after the marker, the messages         *)
(* recorded, trimmed as they are printed, are the trimmed remainders of    *)
(* these lines after that '-', one per line, in the order of the lines.    *)

\* the remainders of the lines that begin with the marker, after the marker
RECURSIVE AfterMarker(_, _)
AfterMarker(ls, marker) ==
    IF ls = <<>> THEN <<>>
    ELSE (IF MatchesAt(Head(ls), marker, 1)
          THEN <<SubSeq(Head(ls), Len(marker) + 1, Len(Head(ls)))>>
          ELSE <<>>)
         \o AfterMarker(Tail(ls), marker)

C6_ErrorMessages ==
    Checked =>
      \A n \in AllTopics :
        \A k \in InScope(n.topic) :
          LET id == n.topic.requirements[k].id
              marker == trim(id) \o <<":", " ", "f", "a", "i", "l", "e", "d">>
              rests == AfterMarker(lines(test_results[Last(Failing(id))].text), marker)
              errors == test_status[n.topic.name][trim(id)].errors
          IN  (Failing(id) # {} /\ \A j \in DOMAIN rests : contains(rests[j], <<"-">>)) =>
                /\ Len(errors) = Len(rests)
                /\ \A j \in DOMAIN rests :
                     trim(errors[j]) =
                       trim(SubSeq(rests[j], find(rests[j], <<"-">>) + 1, Len(rests[j])))

-----------------------------------------------------------------------------
(* C7: the empty lines of render.                                          *)

Rendered == pc = "rendered"

\* the names of the topics of the subtree of a topic, as render prints them
NamesBelow(topic) == {trim(s.topic.name) : s \in Nodes(<<topic>>, 0)}

\* the lines render produced for a topic and the topics below it: from its
\* heading up to the next heading of another topic or the next section
Block(topic) ==
    LET start == CHOOSE i \in HeadingsFor(trim(topic.name)) : TRUE
    IN  {i \in start..Len(output) :
            \A j \in start..i :
                /\ output[j].kind # "section"
                /\ output[j].kind = "heading" => output[j].name \in NamesBelow(topic)}

Blanks(topic) == {i \in Block(topic) : output[i] = nl}

WithRequirements(topic) ==
    {s \in Nodes(<<topic>>, 0) : s.topic.requirements # <<>>}

WithSubtopics(topic) ==
    {s \in Nodes(<<topic>>, 0) : s.topic.subtopics # <<>>}

\* C7 as stated: the lines of a topic with subtopics end with an empty line
\* that follows the rendering of its subtopics, in addition to the empty
\* lines after the requirement lists
C7_BlankAfterSubtopics ==
    Rendered =>
      \A n \in AllTopics :
        n.topic.subtopics # <<>> =>
          /\ output[Last(Block(n.topic))] = nl
          /\ Cardinality(Blanks(n.topic)) =
                Cardinality(WithRequirements(n.topic)) + Cardinality(WithSubtopics(n.topic))

\* C7 as amended: render pushes no empty line after the rendering of the
\* subtopics; the lines of a topic with subtopics hold one empty line for
\* each topic of its subtree that has requirements, and every one of them
\* closes a requirement list (it follows a requirement bullet or a note)
C7_BlankOnlyAfterRequirements ==
    Rendered =>
      \A n \in AllTopics :
        n.topic.subtopics # <<>> =>
          /\ Cardinality(Blanks(n.topic)) = Cardinality(WithRequirements(n.topic))
          /\ \A i \in Blanks(n.topic) : output[i - 1].kind \in {"requirement", "info"}

\* a topic with requirements whose last subtopic has requirements too and
\* is followed by another topic: two empty lines, the second right before
\* the heading of the next topic
C7_Witness ==
    /\ Rendered
    /\ \E n \in AllTopics :
         /\ n.topic.subtopics # <<>>
         /\ n.topic.requirements # <<>>
         /\ n.topic.subtopics[Len(n.topic.subtopics)].requirements # <<>>
         /\ Cardinality(Blanks(n.topic)) = 2
         /\ Last(Block(n.topic)) < Len(output)
         /\ output[Last(Block(n.topic))] = nl
         /\ output[Last(Block(n.topic)) + 1].kind = "heading"

-----------------------------------------------------------------------------
(* C8: the keyword pass and letter case.                                   *)

LowerChar(c) ==
    IF \E i \in DOMAIN UpperLetters : UpperLetters[i] = c
    THEN LowerLetters[CHOOSE i \in DOMAIN UpperLetters : UpperLetters[i] = c]
    ELSE c

to_lowercase(s) == [i \in DOMAIN s |-> LowerChar(s[i])]

\* the replacement of every occurrence of word in any letter case
RECURSIVE ReplaceAnyCase(_, _, _)
ReplaceAnyCase(s, word, to) ==
    LET i == find(to_lowercase(s), word)
    IN  IF i = 0 THEN s
        ELSE SubSeq(s, 1, i - 1) \o to
                \o ReplaceAnyCase(SubSeq(s, i + Len(word), Len(s)), word, to)

RECURSIVE HighlightAnyCaseFrom(_, _)
HighlightAnyCaseFrom(text, k) ==
    IF k > Len(HIGHLIGHTED_WORDS) THEN text
    ELSE HighlightAnyCaseFrom(
            ReplaceAnyCase(text, HIGHLIGHTED_WORDS[k],
                           <<"*", "*", "_">> \o to_uppercase(HIGHLIGHTED_WORDS[k])
                                \o <<"_", "*", "*">>),
            k + 1)

\* the text without the emphasis markers
Unwrapped(s) == replace(replace(s, <<"*", "*", "_">>, <<>>), <<"_", "*", "*">>, <<>>)

\* C8 as stated: the pass replaces the keywords in any letter case
C8_CaseInsensitive ==
    pc = "highlighted" => markdown = HighlightAnyCaseFrom(document, 1)

\* C8 as amended: the pass is case-sensitive.  Every occurrence of a keyword
\* in lower case is replaced by its upper-cased form in '**_' ... '_**', the
\* list applied in its order ('must not' before 'must'); an occurrence in
\* another letter case ('Must', 'SHALL') is left as it is.  So: no keyword
\* in lower case is left; a document without a keyword in lower case is
\* returned unchanged; the text is the same but for the markers and the
\* letter case; and 'may', 'must not', 'Must' and 'SHALL' alone give
\* '**_MAY_**', '**_MUST NOT_**', 'Must' and 'SHALL'.
C8_CaseSensitive ==
    pc = "highlighted" =>
      /\ \A k \in DOMAIN HIGHLIGHTED_WORDS : ~contains(markdown, HIGHLIGHTED_WORDS[k])
      /\ (\A k \in DOMAIN HIGHLIGHTED_WORDS : ~contains(document, HIGHLIGHTED_WORDS[k]))
            => markdown = document
      /\ to_lowercase(Unwrapped(markdown)) = to_lowercase(Unwrapped(document))
      /\ document = <<"m", "a", "y">>
            => markdown = <<"*", "*", "_", "M", "A", "Y", "_", "*", "*">>
      /\ document = <<"m", "u", "s", "t", " ", "n", "o", "t">>
            => markdown = <<"*", "*", "_", "M", "U", "S", "T", " ", "N", "O", "T",
                            "_", "*", "*">>
      /\ document = <<"M", "u", "s", "t">> => markdown = document
      /\ document = <<"S", "H", "A", "L", "L">> => markdown = document

\* 'Must' and 'may' in one document: 'Must' stays, 'may' is emphasised
C8_Witness ==
    /\ pc = "highlighted"
    /\ contains(document, <<"M", "u", "s", "t">>)
    /\ contains(document, <<"m", "a", "y">>)
    /\ contains(markdown, <<"M", "u", "s", "t">>)
    /\ contains(markdown, <<"*", "*", "_", "M", "A", "Y", "_", "*", "*">>)

-----------------------------------------------------------------------------
(* C9: the keyword pass does not wrap twice.  The pass applied to a string *)
(* it has returned returns that string; and in one pass a 'must not' of    *)
(* the document comes out as '**_MUST NOT_**', whose 'MUST' the later      *)
(* keyword 'must' does not wrap again.                                     *)
C9_NoDoubleWrap ==
    /\ pc = "rehighlighted" => markdown = previous
    /\ (pc = "highlighted" /\ contains(document, <<"m", "u", "s", "t", " ", "n", "o", "t">>))
          => /\ contains(markdown, <<"*", "*", "_", "M", "U", "S", "T", " ", "N", "O", "T",
                                     "_", "*", "*">>)
             /\ ~contains(document, <<"*">>) =>
                   /\ ~contains(markdown, <<"*", "*", "_", "*", "*", "_">>)
                   /\ ~contains(markdown, <<"_", "*", "*", "_", "*", "*">>)

\* a document with 'must not', after the second pass
C9_Witness ==
    /\ pc = "rehighlighted"
    /\ contains(document, <<"m", "u", "s", "t", " ", "n", "o", "t">>)
    /\ contains(previous, <<"*", "*", "_", "M", "U", "S", "T", " ", "N", "O", "T", "_", "*", "*">>)
    /\ markdown = previous

-----------------------------------------------------------------------------
(* C10: heading depth and order.  render gives the topic at depth d one    *)
(* heading with 3 + d markers; check gives every topic that survives       *)
(* pruning one heading with 2 + d markers; headings and requirement        *)
(* bullets come in the order of the tree, a topic before its requirements  *)
(* and these before its subtopics.                                         *)

\* the names in the order of the tree; with pruned, without the topics that
\* do not survive
RECURSIVE Preorder(_, _)
Preorder(topics, pruned) ==
    IF topics = <<>> THEN <<>>
    ELSE LET t == Head(topics)
         IN  (IF pruned /\ ~Survives(t) THEN <<>>
              ELSE <<t.name>>
                     \o [k \in DOMAIN t.requirements |-> t.requirements[k].name]
                     \o Preorder(t.subtopics, pruned))
             \o Preorder(Tail(topics), pruned)

Named(line) == line.kind \in {"heading", "requirement", "result"}

NamesOf(ls) == LET named == SelectSeq(ls, Named) IN [i \in DOMAIN named |-> named[i].name]

C10_HeadingDepth ==
    /\ Rendered =>
         /\ \A n \in AllTopics :
              /\ Cardinality(HeadingsFor(trim(n.topic.name))) = 1
              /\ \A i \in HeadingsFor(trim(n.topic.name)) :
                    output[i].markers = [j \in 1..(3 + n.depth) |-> "#"]
         /\ NamesOf(output) = [i \in DOMAIN Preorder(project.topics, FALSE) |->
                                  trim(Preorder(project.topics, FALSE)[i])]
    /\ Checked =>
         /\ \A n \in AllTopics :
              Survives(n.topic) =>
                /\ Cardinality(HeadingsFor(n.topic.name)) = 1
                /\ \A i \in HeadingsFor(n.topic.name) :
                      output[i].markers = [j \in 1..(2 + n.depth) |-> "#"]
         /\ NamesOf(output) = Preorder(project.topics, TRUE)

\* a report with the heading of a topic at depth 2, under a topic that is
\* reported for its subtopic alone
C10_Witness ==
    /\ Checked
    /\ \E n \in AllTopics :
         /\ n.depth = 2
         /\ InScope(n.topic) # {}
         /\ \E i \in HeadingsFor(n.topic.name) : Len(output[i].markers) = 4
    /\ \E n \in AllTopics : n.depth = 1 /\ InScope(n.topic) = {}

-----------------------------------------------------------------------------
(* C11: the status check reports for an in-scope requirement is decided by *)
(* the set of the texts, not by their order: its bullet carries the failed *)
(* marker iff some text contains its failed marker, the passed marker iff  *)
(* no text contains its failed marker and some text its passed marker, and *)
(* the warning marker otherwise.  The lists of the model hold every order  *)
(* of the same texts.                                                      *)
C11_StatusIgnoresOrder ==
    Checked =>
      \A n \in AllTopics :
        \A k \in InScope(n.topic) :
          LET req == n.topic.requirements[k]
              expected ==
                  IF Failing(req.id) # {} THEN ":x:"
                  ELSE IF Passing(req.id) # {} THEN ":white_check_mark:"
                  ELSE ":warning:"
          IN  \A i \in ResultsFor(req.name) : output[i].status = expected

-----------------------------------------------------------------------------
(* C12: the selection of the terminal browser.  With n >= 1 topics the     *)
(* selected topic index is always one of 0..n-1; Down moves it to the next *)
(* index and from n-1 to 0, Up to the previous index and from 0 to n-1;    *)
(* after Down, Up gives back the selection Down found, and after Up, Down  *)
(* does; and no step changes the project.                                  *)

TopicCount == Len(project.topics)

\* the step of the loop that receives the key
Handles(key) == pc = "recv" /\ pc' = "draw" /\ rx # <<>> /\ Head(rx) = key /\ event' = key

SelectionInRange ==
    (pc \in {"draw", "recv", "quit"} /\ TopicCount >= 1) =>
        /\ topics_list_state.selected # <<>>
        /\ topics_list_state.selected[1] \in 0..(TopicCount - 1)

DownStep ==
    Handles("Down") =>
        /\ topics_list_state.selected[1] = TopicCount - 1
              => topics_list_state'.selected = <<0>>
        /\ topics_list_state.selected[1] < TopicCount - 1
              => topics_list_state'.selected = <<topics_list_state.selected[1] + 1>>
        /\ previous_topic(topics_list_state', TopicCount) = topics_list_state

UpStep ==
    Handles("Up") =>
        /\ topics_list_state.selected[1] = 0
              => topics_list_state'.selected = <<TopicCount - 1>>
        /\ topics_list_state.selected[1] > 0
              => topics_list_state'.selected = <<topics_list_state.selected[1] - 1>>
        /\ next_topic(topics_list_state', TopicCount) = topics_list_state

C12_SelectionWraps ==
    /\ []SelectionInRange
    /\ [][DownStep /\ UpStep /\ project' = project]_vars

\* three topics, and Up has just moved the selection to the last of them:
\* it was at 0, since Up from any other index goes one down
C12_Witness ==
    /\ pc = "draw"
    /\ TopicCount = 3
    /\ event = "Up"
    /\ topics_list_state.selected = <<2>>

====
